---- MODULE Spec2Model ----
(***************************************************************************)
(* Model of sync_dropbox.py: the reconciliation pass sync_from_dir over a  *)
(* source tree and a target tree, and the download / extract / sync /      *)
(* cleanup sequence of main.                                               *)
(*                                                                         *)
(* A directory tree is a function from the paths present in it to nodes.   *)
(* A path is a sequence of names relative to the tree's root; <<>> is the  *)
(* root itself.  A tree that does not exist is the function with the empty *)
(* domain.                                                                 *)
(***************************************************************************)
EXTENDS Integers, Sequences, FiniteSets, TLC

VARIABLES
    src,        \* the tree under src_dir
    tgt,        \* the tree under target_dir
    keep,       \* keep_versions of the running (or last) pass
    dry,        \* dry_run of the running (or last) pass
    pc,         \* position of sync_from_dir: idle, walk, returned, raised
    todo,       \* source files os.walk has still to yield, in its order
    sum,        \* the counters total, copied, skipped, updated, errors
    events,     \* the diagnostics printed by the running (or last) pass
    now,        \* the wall clock, in seconds
    passes,     \* number of calls of sync_from_dir so far
    tgt0,       \* history: the target tree when the pass was called
    prev,       \* history: parameters and outcome of the pass before this one
    mpc,        \* position of main
    remote,     \* what the URL serves: whether it is a ZIP, and the tree in it
    zipFile,    \* whether a file is at DOWNLOAD_PATH
    tmpMade,    \* whether main has created its temporary directory
    rc          \* main's return code (-1 while it runs)

vars == <<src, tgt, keep, dry, pc, todo, sum, events, now, passes, tgt0, prev,
          mpc, remote, zipFile, tmpMade, rc>>

syncVars == <<keep, dry, pc, todo, sum, events, passes, tgt0, prev>>
mainVars == <<mpc, remote, zipFile, tmpMade, rc>>

(***************************************************************************)
(* Bounds of the model.                                                    *)
(***************************************************************************)
MaxContent == 1     \* file contents are 0 (the empty file) .. MaxContent
MaxTime == 2        \* the clock runs from 1 to MaxTime
MaxPasses == 2      \* calls of sync_from_dir in one behaviour

Contents == 0..MaxContent

(***************************************************************************)
(* Paths and nodes.                                                        *)
(***************************************************************************)
Root == <<>>

VersionsName == ".old_versions"

versions_dir == <<VersionsName>>

Parent(p) == SubSeq(p, 1, Len(p) - 1)

Last(p) == p[Len(p)]

Prefixes(p) == { SubSeq(p, 1, k) : k \in 0..Len(p) }

IsPrefix(p, q) == Len(p) <= Len(q) /\ SubSeq(q, 1, Len(p)) = p

FileNode(c, m) == [kind |-> "file", content |-> c, mode |-> m]

DirNode == [kind |-> "dir", content |-> 0, mode |-> TRUE]

NoTree == [p \in {} |-> DirNode]

Exists(fs, p) == p \in DOMAIN fs

IsDir(fs, p) == p \in DOMAIN fs /\ fs[p].kind = "dir"

IsFile(fs, p) == p \in DOMAIN fs /\ fs[p].kind = "file"

Files(fs) == { p \in DOMAIN fs : fs[p].kind = "file" }

Under(fs, p) == { q \in DOMAIN fs : IsPrefix(p, q) }

\* A tree is well formed when every node but the root lies in a directory.
WellFormed(fs) ==
    \A p \in DOMAIN fs : p # Root => IsDir(fs, Parent(p))

\* The tree holding the files of f (a function from paths to file nodes) and
\* the directories dirs, with every directory on the way to them.
MkTree(f, dirs) ==
    LET ps == DOMAIN f \cup dirs \cup {Root}
        all == UNION { Prefixes(p) : p \in ps }
    IN  [p \in all |-> IF p \in DOMAIN f THEN f[p] ELSE DirNode]

(***************************************************************************)
(* Helpers of the script.                                                  *)
(***************************************************************************)
\* timestamp(): strftime("%Y%m%d-%H%M%S") of the clock, one string per second.
timestamp(t) == "T" \o ToString(t)

\* f"{rel}.{ts}" under versions_dir.
ArchivePath(rel, ts) ==
    versions_dir \o Parent(rel) \o << Last(rel) \o "." \o ts >>

\* ensure_dir: Path.mkdir(parents=True, exist_ok=True) raises when the path or
\* one of its ancestors is there and is no directory, and else leaves every
\* one of them a directory.
EnsureDirOk(fs, p) ==
    \A q \in Prefixes(p) : Exists(fs, q) => IsDir(fs, q)

ensure_dir(fs, p) ==
    [q \in DOMAIN fs \cup Prefixes(p) |->
        IF q \in DOMAIN fs THEN fs[q] ELSE DirNode]

\* hexdigest of a content: never empty, so never falsy, also for the empty file.
None == 0

Digest(c) == c + 1

\* sha256_file: the digest, or None when open() or read() raises.
sha256_file(fs, p) ==
    IF IsFile(fs, p) /\ fs[p].mode THEN Digest(fs[p].content) ELSE None

\* os.rename(s, d) of a file or of a directory with all that is under it.
Rename(fs, s, d) ==
    LET gone  == Under(fs, s) \cup Under(fs, d)
        moved == { d \o SubSeq(q, Len(s) + 1, Len(q)) : q \in Under(fs, s) }
    IN  [q \in (DOMAIN fs \ gone) \cup moved |->
            IF q \in moved
            THEN fs[s \o SubSeq(q, Len(d) + 1, Len(q))]
            ELSE fs[q]]

\* shutil.move(s, d): into d when d is a directory, else onto d.
MoveDest(fs, s, d) == IF IsDir(fs, d) THEN d \o << Last(s) >> ELSE d

MoveOk(fs, s, d) ==
    /\ Exists(fs, s)
    /\ IsDir(fs, Parent(MoveDest(fs, s, d)))
    /\ IsDir(fs, d) => ~Exists(fs, MoveDest(fs, s, d))
    /\ ~IsPrefix(s, MoveDest(fs, s, d))
    /\ IsDir(fs, s) => ~IsFile(fs, MoveDest(fs, s, d))

Move(fs, s, d) == Rename(fs, s, MoveDest(fs, s, d))

\* shutil.copy2(s, d) of the source file s: into d when d is a directory.
CopyDest(fs, s, d) == IF IsDir(fs, d) THEN d \o << Last(s) >> ELSE d

CopyOk(from, s, fs, d) ==
    LET real == CopyDest(fs, s, d)
    IN  /\ IsFile(from, s) /\ from[s].mode
        /\ IsDir(fs, Parent(real))
        /\ ~IsDir(fs, real)
        /\ IsFile(fs, real) => fs[real].mode

\* A copy that creates the file and writes nothing into it.
CopyTruncates(from, s, fs, d) ==
    LET real == CopyDest(fs, s, d)
    IN  [q \in DOMAIN fs \cup {real} |->
            IF q = real THEN FileNode(0, from[s].mode) ELSE fs[q]]

Copy(from, s, fs, d) ==
    LET real == CopyDest(fs, s, d)
    IN  [q \in DOMAIN fs \cup {real} |->
            IF q = real THEN FileNode(from[s].content, from[s].mode) ELSE fs[q]]

(***************************************************************************)
(* os.walk(src_dir), top down: the files of a directory come before the    *)
(* files of its subdirectories, each subdirectory is walked to its end     *)
(* before the next one, and the order inside a directory is the order of   *)
(* scandir, which is any order.  A root that is missing yields nothing.    *)
(***************************************************************************)
Perms(S) ==
    { s \in [1..Cardinality(S) -> S] : \A i, j \in DOMAIN s : s[i] = s[j] => i = j }

IsWalk(fs, s) ==
    /\ \A i, j \in DOMAIN s :
          (i < j) => ~( Parent(s[j]) # Parent(s[i])
                        /\ IsPrefix(Parent(s[j]), Parent(s[i])) )
    /\ \A dir \in DOMAIN fs : \A i, j, k \in DOMAIN s :
          (i < j /\ j < k /\ IsPrefix(dir, s[i]) /\ IsPrefix(dir, s[k]))
              => IsPrefix(dir, s[j])

WalkOrders(fs) == { s \in Perms(Files(fs)) : IsWalk(fs, s) }

(***************************************************************************)
(* sync_from_dir.                                                          *)
(***************************************************************************)
NoSum == [total |-> 0, copied |-> 0, skipped |-> 0, updated |-> 0, errors |-> 0]

Counted(s) == s.copied + s.skipped + s.updated + s.errors

Event(tag, rel) == [tag |-> tag, rel |-> rel]

Res(fs, tag, archived) == [fs |-> fs, tag |-> tag, archived |-> archived]

\* An update that overwrites the changed file without archiving it.
UpdateNoArchive(fs, rel, k, ts) ==
    IF ~CopyOk(src, rel, fs, rel)
    THEN Res(fs, "ERROR", FALSE)
    ELSE Res(Copy(src, rel, fs, rel), "UPDATE", FALSE)

\* Lines 231-241: replace the changed file dest_file, archiving it first when
\* keep_versions is set.  Any exception leaves what was done before it.
Update(fs, rel, k, ts) ==
    IF k
    THEN LET archive_path == ArchivePath(rel, ts)
         IN  IF ~EnsureDirOk(fs, Parent(archive_path))
             THEN Res(fs, "ERROR", FALSE)
             ELSE LET fs2 == ensure_dir(fs, Parent(archive_path))
                  IN  IF ~MoveOk(fs2, rel, archive_path)
                      THEN Res(fs2, "ERROR", FALSE)
                      ELSE LET fs3 == Move(fs2, rel, archive_path)
                           IN  IF ~CopyOk(src, rel, fs3, rel)
                               THEN Res(fs3, "ERROR", TRUE)
                               ELSE Res(Copy(src, rel, fs3, rel), "UPDATE", TRUE)
    ELSE IF ~CopyOk(src, rel, fs, rel)
         THEN Res(fs, "ERROR", FALSE)
         ELSE Res(Copy(src, rel, fs, rel), "UPDATE", FALSE)

\* Lines 219: the two digests are there and equal.
Unchanged(fs, rel) ==
    LET new_hash == sha256_file(src, rel)
        old_hash == sha256_file(fs, rel)
    IN  new_hash # None /\ old_hash # None /\ new_hash = old_hash

\* Lines 212-259: the body of the loop for the source file rel, on the target
\* tree fs at second ts.
Process(fs, rel, k, d, ts) ==
    IF ~d /\ ~EnsureDirOk(fs, Parent(rel))
    THEN Res(fs, "ERROR", FALSE)
    ELSE LET fs1 == IF d THEN fs ELSE ensure_dir(fs, Parent(rel))
         IN  IF Exists(fs1, rel)
             THEN IF Unchanged(fs1, rel)
                  THEN Res(fs1, "SKIP", FALSE)
                  ELSE IF d
                       THEN Res(fs1, "DRY-UPDATE", FALSE)
                       ELSE Update(fs1, rel, k, ts)
             ELSE IF d
                  THEN Res(fs1, "DRY-COPY", FALSE)
                  ELSE IF ~CopyOk(src, rel, fs1, rel)
                       THEN Res(fs1, "ERROR", FALSE)
                       ELSE Res(Copy(src, rel, fs1, rel), "COPY", FALSE)

\* What sha256_file prints while the entry is compared (lines 94-95).
HashErrors(fs, rel, d) ==
    LET there == (d \/ EnsureDirOk(fs, Parent(rel))) /\ Exists(fs, rel)
    IN  (IF there /\ sha256_file(src, rel) = None
         THEN << Event("HASH-ERROR-SRC", rel) >> ELSE << >>)
        \o
        (IF there /\ sha256_file(fs, rel) = None
         THEN << Event("HASH-ERROR-DST", rel) >> ELSE << >>)

\* A count that leaves failed entries out.
CountDropsErrors(s, tag) ==
    CASE tag \in {"COPY", "DRY-COPY"}     -> [s EXCEPT !.copied = @ + 1]
      [] tag \in {"UPDATE", "DRY-UPDATE"} -> [s EXCEPT !.updated = @ + 1]
      [] tag = "SKIP"                     -> [s EXCEPT !.skipped = @ + 1]
      [] tag = "ERROR"                    -> s

\* The counter an entry's outcome increments.
Count(s, tag) ==
    CASE tag \in {"COPY", "DRY-COPY"}     -> [s EXCEPT !.copied = @ + 1]
      [] tag \in {"UPDATE", "DRY-UPDATE"} -> [s EXCEPT !.updated = @ + 1]
      [] tag = "SKIP"                     -> [s EXCEPT !.skipped = @ + 1]
      [] tag = "ERROR"                    -> [s EXCEPT !.errors = @ + 1]

\* Lines 193-204: the call, up to the loop.  ensure_dir(versions_dir) is
\* outside any try: when it raises, the call raises.
Enter(k, d) ==
    /\ keep' = k
    /\ dry' = d
    /\ passes' = passes + 1
    /\ tgt0' = tgt
    /\ prev' = [valid |-> passes > 0, keep |-> keep, dry |-> dry, pc |-> pc,
                sum |-> sum, tgt0 |-> tgt0]
    /\ events' = << >>
    /\ IF k /\ ~d /\ ~EnsureDirOk(tgt, versions_dir)
       THEN /\ pc' = "raised"
            /\ tgt' = tgt
            /\ sum' = NoSum
            /\ todo' = << >>
       ELSE /\ pc' = "walk"
            /\ tgt' = IF k /\ ~d THEN ensure_dir(tgt, versions_dir) ELSE tgt
            /\ sum' = [NoSum EXCEPT !.total = Cardinality(Files(src))]
            /\ todo' \in WalkOrders(src)

\* sync_from_dir called on the two trees as they are.
Call(k, d) ==
    /\ mpc = "lib"
    /\ pc \in {"idle", "returned", "raised"}
    /\ passes < MaxPasses
    /\ Enter(k, d)
    /\ UNCHANGED <<src, now, mainVars>>

\* One turn of the loop of lines 206-259.
Visit ==
    /\ pc = "walk"
    /\ todo # << >>
    /\ LET rel == Head(todo)
           r   == Process(tgt, rel, keep, dry, timestamp(now))
       IN  /\ tgt' = r.fs
           /\ sum' = Count(sum, r.tag)
           /\ events' = events \o HashErrors(tgt, rel, dry)
                          \o (IF r.archived THEN << Event("ARCHIVE", rel) >> ELSE << >>)
                          \o << Event(r.tag, rel) >>
    /\ todo' = Tail(todo)
    /\ UNCHANGED <<src, keep, dry, pc, now, passes, tgt0, prev, mainVars>>

\* Lines 261-268: the walk is over, the summary is returned.
Return ==
    /\ pc = "walk"
    /\ todo = << >>
    /\ pc' = "returned"
    /\ UNCHANGED <<src, tgt, keep, dry, todo, sum, events, now, passes, tgt0,
                   prev, mainVars>>

\* A second passes on the wall clock.  Seconds that pass between two calls are
\* seconds that pass before the first entry of the later one.
Tick ==
    /\ now < MaxTime
    /\ pc = "walk"
    /\ now' = now + 1
    /\ UNCHANGED <<src, tgt, syncVars, mainVars>>

(***************************************************************************)
(* The trees a behaviour starts from.                                      *)
(***************************************************************************)
One(p, n) == [q \in {p} |-> n]

Part(f, dirs) == [f |-> f, dirs |-> dirs]

\* Source trees: a (any content, or unreadable), d/a, and a file lying under
\* .old_versions that is named as the archive of a made in second 1 is named.
SrcA ==
    {NoTree, One(<<"a">>, FileNode(MaxContent, FALSE))}
    \cup { One(<<"a">>, FileNode(c, TRUE)) : c \in Contents }

SrcD == {NoTree, One(<<"d", "a">>, FileNode(MaxContent, TRUE))}

SrcV == {NoTree, One(ArchivePath(<<"a">>, timestamp(1)), FileNode(MaxContent, TRUE))}

SourceTrees == { MkTree(a @@ d @@ v, {}) : a \in SrcA, d \in SrcD, v \in SrcV }

\* Target trees: a missing, a directory or a file (any content, or without
\* permissions); d missing, a file, or a directory holding a; .old_versions
\* missing, a file, or a directory, empty or holding a file named d.
TgtA ==
    {Part(NoTree, {}), Part(NoTree, {<<"a">>}),
     Part(One(<<"a">>, FileNode(MaxContent, FALSE)), {})}
    \cup { Part(One(<<"a">>, FileNode(c, TRUE)), {}) : c \in Contents }

TgtD ==
    {Part(NoTree, {}), Part(One(<<"d">>, FileNode(0, TRUE)), {}),
     Part(One(<<"d", "a">>, FileNode(0, TRUE)), {})}

TgtV ==
    { Part(NoTree, {}), Part(NoTree, {versions_dir}),
      Part(One(versions_dir, FileNode(0, TRUE)), {}),
      Part(One(versions_dir \o <<"d">>, FileNode(0, TRUE)), {}) }

TargetTrees ==
    { MkTree(a.f @@ d.f @@ v.f, a.dirs \cup d.dirs \cup v.dirs) :
        a \in TgtA, d \in TgtD, v \in TgtV }

NoPrev == [valid |-> FALSE, keep |-> TRUE, dry |-> FALSE, pc |-> "idle",
           sum |-> NoSum, tgt0 |-> NoTree]

InitSync ==
    /\ tgt \in TargetTrees
    /\ keep = TRUE
    /\ dry = FALSE
    /\ pc = "idle"
    /\ todo = << >>
    /\ sum = NoSum
    /\ events = << >>
    /\ now = 1
    /\ passes = 0
    /\ tgt0 = tgt
    /\ prev = NoPrev

\* sync_from_dir called by a program of its own: the source root may be missing.
Init ==
    /\ InitSync
    /\ src \in SourceTrees \cup {NoTree}
    /\ mpc = "lib"
    /\ remote = [zip |-> FALSE, tree |-> NoTree]
    /\ zipFile = FALSE
    /\ tmpMade = FALSE
    /\ rc = -1

Next ==
    \/ \E k, d \in BOOLEAN : Call(k, d)
    \/ Visit
    \/ Return
    \/ Tick

Spec == Init /\ [][Next]_vars

(***************************************************************************)
(* main, from the download on (lines 344-396).                             *)
(***************************************************************************)
\* Lines 345-352: download_zip writes the file at DOWNLOAD_PATH, or raises,
\* with or without a part of the file written, and main returns 1.
Download(ok, partial) ==
    /\ mpc = "start"
    /\ IF ok
       THEN /\ zipFile' = TRUE
            /\ mpc' = "downloaded"
            /\ rc' = rc
       ELSE /\ zipFile' = partial
            /\ mpc' = "done"
            /\ rc' = 1
    /\ UNCHANGED <<src, tgt, syncVars, now, remote, tmpMade>>

\* Lines 355-367: mkdtemp, then extract_zip into it; when that raises the
\* temporary directory is removed and main returns 2.
Extract ==
    /\ mpc = "downloaded"
    /\ IF remote.zip
       THEN /\ tmpMade' = TRUE
            /\ src' = remote.tree
            /\ mpc' = "extracted"
            /\ rc' = rc
       ELSE /\ tmpMade' = FALSE
            /\ src' = NoTree
            /\ mpc' = "done"
            /\ rc' = 2
    /\ UNCHANGED <<tgt, syncVars, now, remote, zipFile>>

\* Line 372: sync_from_dir(tmpdir, target_dir, keep_versions, dry_run, log_fp).
MainSync(k, d) ==
    /\ mpc = "extracted"
    /\ pc = "idle"
    /\ Enter(k, d)
    /\ UNCHANGED <<src, now, mainVars>>

\* Lines 373-396, once the pass has returned or raised: unlink the ZIP when it
\* is there, then rmtree the temporary directory; an exception of either is
\* logged and ends the cleanup.  main returns 0.
Cleanup(unlinkOk, rmtreeOk) ==
    /\ mpc = "extracted"
    /\ pc \in {"returned", "raised"}
    /\ zipFile' = (zipFile /\ ~unlinkOk)
    /\ IF (zipFile /\ ~unlinkOk) \/ ~rmtreeOk
       THEN UNCHANGED <<src, tmpMade>>
       ELSE src' = NoTree /\ tmpMade' = FALSE
    /\ mpc' = "done"
    /\ rc' = 0
    /\ UNCHANGED <<tgt, syncVars, now, remote>>

Remotes ==
    {[zip |-> FALSE, tree |-> NoTree]} \cup { [zip |-> TRUE, tree |-> t] : t \in SourceTrees }

MainInit ==
    /\ InitSync
    /\ src = NoTree
    /\ mpc = "start"
    /\ remote \in Remotes
    /\ zipFile = FALSE
    /\ tmpMade = FALSE
    /\ rc = -1

MainNext ==
    \/ \E ok, partial \in BOOLEAN : Download(ok, partial)
    \/ Extract
    \/ \E k, d \in BOOLEAN : MainSync(k, d)
    \/ Visit
    \/ Return
    \/ Tick
    \/ \E unlinkOk, rmtreeOk \in BOOLEAN : Cleanup(unlinkOk, rmtreeOk)

MainSpec == MainInit /\ [][MainNext]_vars

TypeOK ==
    /\ WellFormed(tgt)
    /\ WellFormed(src)
    /\ pc \in {"idle", "walk", "returned", "raised"}

(***************************************************************************)
(* Vocabulary of the properties.                                           *)
(***************************************************************************)
HasEvent(tag, rel) == \E i \in DOMAIN events : events[i] = Event(tag, rel)

NumEvents(tags) == Cardinality({ i \in DOMAIN events : events[i].tag \in tags })

Outcomes == {"COPY", "UPDATE", "SKIP", "ERROR", "DRY-COPY", "DRY-UPDATE"}

\* The step is one turn of the loop, for the entry Head(todo).
IsVisit == pc = "walk" /\ todo # << >> /\ todo' = Tail(todo)

\* The file rel has a digest in both trees, and the two differ.
Differs(fs, rel) ==
    /\ sha256_file(src, rel) # None
    /\ sha256_file(fs, rel) # None
    /\ sha256_file(src, rel) # sha256_file(fs, rel)

SameContent(fs, rel) ==
    IsFile(fs, rel) /\ IsFile(src, rel) /\ fs[rel].content = src[rel].content

Stamps == { timestamp(t) : t \in 1..MaxTime }

\* This pass is not a dry run and the one before it, from the same target
\* tree and with the same keep_versions, was one; both returned.
DryThenReal ==
    /\ pc = "returned" /\ ~dry
    /\ prev.valid /\ prev.pc = "returned" /\ prev.dry
    /\ prev.keep = keep /\ prev.tgt0 = tgt0

(***************************************************************************)
(* C10.  In every pass each turn of the loop takes the next file of the    *)
(* walk and adds one to exactly one of copied, updated, skipped, errors;   *)
(* no counter ever goes down and total stays as computed; and when the     *)
(* pass returns, every file under the source root has been visited once    *)
(* and copied + updated + skipped + errors = total = the number of files   *)
(* under the source root, in a dry run as in a real one.                   *)
(***************************************************************************)
C10_Accounting ==
    [][ (pc = "walk" /\ pc' # "raised" /\ passes' = passes) =>
          /\ sum'.total = sum.total
          /\ sum'.copied >= sum.copied /\ sum'.updated >= sum.updated
          /\ sum'.skipped >= sum.skipped /\ sum'.errors >= sum.errors
          /\ IsVisit =>
                /\ Counted(sum') = Counted(sum) + 1
                /\ NumEvents(Outcomes)' = NumEvents(Outcomes) + 1
                /\ events'[Len(events')].rel = Head(todo)
          /\ ~IsVisit => sum' = sum
          /\ pc' = "returned" =>
                /\ Counted(sum') = sum'.total
                /\ sum'.total = Cardinality(Files(src))
                /\ NumEvents(Outcomes)' = Cardinality(Files(src))
                /\ \A rel \in Files(src) :
                      \E tag \in Outcomes : HasEvent(tag, rel)'
      ]_vars

C10_Witness ==
    /\ pc = "returned"
    /\ sum.total = 3
    /\ sum.errors = 1 /\ sum.copied = 1 /\ sum.skipped = 1

(***************************************************************************)
(* C1.  A dry run returns the summary that the real pass from the same     *)
(* starting state returns, whatever the trees and keep_versions are, also  *)
(* when a source or target file cannot be read or written, and a dry run   *)
(* leaves the target tree as it was.                                       *)
(***************************************************************************)
C1_DryRunSameSummary ==
    /\ (pc \in {"walk", "returned"} /\ dry) => tgt = tgt0
    /\ DryThenReal => sum = prev.sum

C3_SecondPassSkipsAll ==
    ( /\ pc = "returned" /\ ~dry
      /\ prev.valid /\ prev.pc = "returned" /\ ~prev.dry )
    => (sum.copied = 0 /\ sum.updated = 0 /\ sum.skipped = sum.total)

C5_UnchangedWritesNothing ==
    ( /\ passes > 0
      /\ Files(src) # {}
      /\ \A rel \in Files(src) :
            sha256_file(src, rel) # None
            /\ sha256_file(tgt0, rel) = sha256_file(src, rel) )
    => /\ tgt = tgt0
       /\ pc = "returned" => sum.skipped = Cardinality(Files(src))

(***************************************************************************)
(* C6.  An I/O failure on one entry never aborts the pass: a source file   *)
(* that could not be read is counted in errors and reported as ERROR, as   *)
(* is every failed directory creation, archive move and copy, and the pass *)
(* goes on to the entries that remain and returns a summary.               *)
(***************************************************************************)
C6_IOFailureIsAnError ==
    /\ \A i \in DOMAIN events :
          events[i].tag = "HASH-ERROR-SRC" => HasEvent("ERROR", events[i].rel)
    /\ pc \in {"walk", "returned"} => sum.errors = NumEvents({"ERROR"})

(***************************************************************************)
(* C7.  When the source root does not exist the call is aborted as a setup *)
(* error: it raises instead of returning a summary, no entry is processed, *)
(* and nothing is created or changed under the target root.                *)
(***************************************************************************)
C7_MissingSourceAborts ==
    (mpc = "lib" /\ src = NoTree /\ pc \in {"returned", "raised"}) =>
        /\ pc = "raised"
        /\ events = << >>
        /\ tgt = tgt0

(***************************************************************************)
(* C8.  No source entry is ever compared against, copied to or used to     *)
(* update a path under .old_versions of the target root, whatever the      *)
(* source tree holds.                                                      *)
(***************************************************************************)
C8_VersionsNeverSynced ==
    \A i \in DOMAIN events :
        events[i].tag \in {"SKIP", "COPY", "UPDATE", "DRY-COPY", "DRY-UPDATE"}
            => ~IsPrefix(versions_dir, events[i].rel)

(***************************************************************************)
(* C9.  Whenever main returns after a download that succeeded, the ZIP at  *)
(* DOWNLOAD_PATH and the temporary extraction directory are both gone,     *)
(* whether the extraction and the sync succeeded or failed.                *)
(***************************************************************************)
C9_ZipAndTmpDeleted ==
    (mpc = "done" /\ rc # 1) => (~zipFile /\ ~tmpMade)

====
